---- MODULE Spec2Model ----
(***************************************************************************)
(* Game-state engine of solitui (src/src/main.rs): the card and deck       *)
(* model, the deal, the click resolver App::get_selected_pos, the move     *)
(* engine App::handle_move and the event handler App::handle_events.       *)
(*                                                                         *)
(* Vec<Card> is a TLA+ sequence; the source's 0-based index i is element   *)
(* i+1 of the sequence (operator At).  The arrays rows and suit_piles are  *)
(* functions on 0..7 and 0..3.  A Rust panic (unwrap on None, index out of *)
(* range) sets the variable panicked, after which no event is handled.     *)
(* Rendering (the Widget impls) reads the state and is not modelled.       *)
(***************************************************************************)
EXTENDS Integers, Sequences, FiniteSets, TLC

VARIABLES
    rows,          \* App.rows: [Column; 8]
    stock,         \* App.stock
    discard,       \* App.discard
    suit_piles,    \* App.suit_piles: [Pile; 4]
    selected_pos,  \* App.selected_pos
    exit,          \* App.exit
    debug,         \* App.debug, kept as the values formatted into it
    panicked,      \* TRUE once a handler has panicked
    ev,            \* kind of the event last read by handle_events
    held,          \* history: the suits each foundation has ever received
    nevents,       \* number of events handled so far
    clicked        \* history: (ev.column, ev.row) of the left release last traced

vars == <<rows, stock, discard, suit_piles, selected_pos, exit, debug,
          panicked, ev, held, nevents, clicked>>

piles == <<rows, stock, discard, suit_piles>>

----------------------------------------------------------------------------
(* Program constants *)

DeckSize == 52
NumColumns == 8
NumSuitPiles == 4
King == 12

(* Bounds of the model *)

\* events handled in one run of Spec, of SpecDeep and of SpecDeal
MaxEvents == 4
MaxDeepEvents == 5
MaxDealEvents == 1

\* events handled in one run of SpecTrace and of SpecStock
MaxTraceEvents == 3
MaxStockEvents == 18

\* the last card row and the last terminal row a click is drawn from
MaxClickRow == 10
MaxClickY == 30

\* SpecDeep clicks only in the first DeepColumns column lanes and the stock lane
DeepColumns == 2

\* SpecDeal deals every rotation by 0 .. MaxRotation of three orders
MaxRotation == 3

ColumnIdx == 0 .. (NumColumns - 1)
SuitPileIdx == 0 .. (NumSuitPiles - 1)

\* Clicks: in every column lane (its middle cell) the first cell of every card
\* row; in the stock lane every terminal row of its middle cell and the top of
\* its first and last cell; one cell in the gap between the lanes and one to
\* the right of the stock lane.
ColumnClicks(cols) == {<<5 * c + 2, 2 * r>> : c \in cols, r \in 0 .. MaxClickRow}
StockLaneClicks == ({43} \X (0 .. MaxClickY)) \cup {<<41, 0>>, <<45, 0>>}
OutsideClicks == {<<40, 0>>, <<46, 0>>}

Clicks == ColumnClicks(ColumnIdx) \cup StockLaneClicks \cup OutsideClicks
DeepClicks == ColumnClicks(0 .. (DeepColumns - 1)) \cup StockLaneClicks

\* SpecTrace: in the first TraceColumns column lanes the first and the last
\* cell of every terminal row of the card rows, and the clicks of the stock lane
TraceColumns == 3
LaneClicks(cols) ==
    {<<5 * c + dx, y>> : c \in cols, dx \in {0, 4}, y \in 0 .. (2 * MaxClickRow + 1)}
TraceClicks == LaneClicks(0 .. (TraceColumns - 1)) \cup StockLaneClicks

\* SpecStock: the first and the last cell of every terminal row of the stock
\* band and of the discard band, the top
\* of column lane 0 and one cell on each side of the stock lane
StockClicks == ({41, 45} \X (0 .. 9)) \cup {<<2, 0>>, <<40, 0>>, <<46, 0>>}

\* the value of clicked when the last left release was not traced
NoClick == <<-1, -1>>

----------------------------------------------------------------------------
(* Vec helpers *)

At(v, i) == v[i + 1]
Last(v) == v[Len(v)]
Front(v) == SubSeq(v, 1, Len(v) - 1)
\* Vec::drain(i..): the removed tail and what is left, for i <= len
DrainTail_skips_first(v, i) == SubSeq(v, i + 2, Len(v))
DrainTail(v, i) == SubSeq(v, i + 1, Len(v))
DrainRest(v, i) == SubSeq(v, 1, i)
\* last_mut().hidden = false, when there is a last element
RevealTop_forgotten(v) == v
RevealTop(v) == IF Len(v) = 0 THEN v ELSE [v EXCEPT ![Len(v)].hidden = FALSE]

----------------------------------------------------------------------------
(* Card *)

DECK == [i \in 0 .. (DeckSize - 1) |->
            [suit |-> i % 4, number |-> i \div 4, hidden |-> TRUE, selected |-> FALSE]]

color(card) == card.suit % 2

\* identity of a card: (suit, rank)
CardId(card) == <<card.suit, card.number>>

----------------------------------------------------------------------------
(* SelectedPos *)

None == [kind |-> "None", x |-> 0, y |-> 0]
Discard == [kind |-> "Discard", x |-> 0, y |-> 0]
SuitPile(n) == [kind |-> "SuitPile", x |-> n, y |-> 0]
Column(x, y) == [kind |-> "Column", x |-> x, y |-> y]

\* the debug string: its text and the two positions formatted into it
DebugInit == [text |-> "DEBUG STRING", src |-> None, dest |-> None]
DebugMove(src, dest) == [text |-> "->", src |-> src, dest |-> dest]
DebugHere(t) == [text |-> t, src |-> None, dest |-> None]

----------------------------------------------------------------------------
(* App::init *)

\* Orders that Card::DECK.choose_multiple(&mut rng, 52) can yield (any
\* permutation of the deck indices).  Shuffle1 deals the columns
\*   0: 6S            1: (5D) 9C          2: (AS 2H) 5S     3: (10H 3S 3D) JS
\*   4: (...) KH      5: (...) 7D         6: (...) AC       7: (...) 10D
\* (face-down cards in parentheses) and a stock drawn in the order 5H, QC, AH.
Shuffle1 ==
    << 20, 19, 34,  0,  5, 16, 37,  8, 11, 40, 14, 21, 24,
       28, 49, 31, 35, 41, 44, 48, 27,  3,  6,  9, 12, 15,
       22,  2, 25, 29, 32, 36, 42, 45, 50, 39,  4,  7, 10,
       13, 18, 23, 26, 30, 33, 38, 43, 47, 51,  1, 46, 17 >>

Shuffle2 ==
    << 21,  0, 26,  6,  9, 16, 12, 18, 22, 31, 15, 25, 29,
       34, 47, 37, 40, 43, 46, 51,  4,  2,  7, 10, 13, 19,
       23, 50, 27, 30, 35, 38, 41, 44, 48,  3,  5,  8, 11,
       14, 20, 24, 28, 33, 36, 39, 42, 45, 49, 32,  1, 17 >>

IsPermutation(order) ==
    /\ Len(order) = DeckSize
    /\ {order[k] : k \in 1 .. Len(order)} = 0 .. (DeckSize - 1)

Unshuffled == [k \in 1 .. DeckSize |-> k - 1]

Rotate(order, k) == [i \in 1 .. Len(order) |-> order[((i - 1 + k) % Len(order)) + 1]]

Shuffles == {o \in {Shuffle1} : IsPermutation(o)}

DealShuffles ==
    {o \in {Rotate(b, k) : b \in {Shuffle1, Shuffle2, Unshuffled}, k \in 0 .. MaxRotation} :
        IsPermutation(o)}

choose_multiple(order) == [k \in 1 .. Len(order) |-> DECK[order[k]]]

\* deck.by_ref().take(n).collect() and what the iterator has left
Take(deck, n) == SubSeq(deck, 1, IF n < Len(deck) THEN n ELSE Len(deck))
Skip_nothing(deck, n) == deck
Skip(deck, n) == SubSeq(deck, (IF n < Len(deck) THEN n ELSE Len(deck)) + 1, Len(deck))

\* one pass of the loop "for i in 0..8" of init
deal_column_not_flipped(deck, i) == Take(deck, i + 1)
deal_column(deck, i) == [Take(deck, i + 1) EXCEPT ![i + 1].hidden = FALSE]

RECURSIVE deal_rows(_, _, _)
deal_rows(res_rows, deck, i) ==
    IF i = NumColumns
    THEN [rows |-> res_rows, deck |-> deck]
    ELSE deal_rows([res_rows EXCEPT ![i] = deal_column(deck, i)],
                   Skip(deck, i + 1), i + 1)

init(order) ==
    LET dealt == deal_rows([i \in ColumnIdx |-> <<>>], choose_multiple(order), 0)
    IN  [rows |-> dealt.rows,
         stock |-> dealt.deck,
         discard |-> <<>>,
         suit_piles |-> [n \in SuitPileIdx |-> <<>>],
         selected_pos |-> None,
         exit |-> FALSE,
         debug |-> DebugInit,
         panicked |-> FALSE]

----------------------------------------------------------------------------
(* App::validate_suit, App::validate_col *)

\* validate_suit without the suit test
validate_suit_any_suit(self, pile_n, card) == TRUE

\* validate_suit comparing colours instead of suits
validate_suit_by_color(self, pile_n, card) ==
    IF Len(self.suit_piles[pile_n]) > 0
    THEN color(Last(self.suit_piles[pile_n])) = color(card)
    ELSE TRUE

validate_suit(self, pile_n, card) ==
    IF Len(self.suit_piles[pile_n]) > 0
    THEN Last(self.suit_piles[pile_n]).suit = card.suit
    ELSE TRUE

\* validate_col without the colour test
validate_col_any_color(self, col_n, card) ==
    IF Len(self.rows[col_n]) > 0
    THEN Last(self.rows[col_n]).number = card.number + 1
    ELSE card.number = King

\* validate_col without the rank test
validate_col_any_rank(self, col_n, card) ==
    IF Len(self.rows[col_n]) > 0
    THEN color(Last(self.rows[col_n])) # color(card)
    ELSE card.number = King

validate_col(self, col_n, card) ==
    IF Len(self.rows[col_n]) > 0
    THEN /\ color(Last(self.rows[col_n])) # color(card)
         /\ Last(self.rows[col_n]).number = card.number + 1
    ELSE card.number = King

----------------------------------------------------------------------------
(* App::get_selected_pos: the resolved position and the state it leaves *)

\* a draw that leaves the card face-down
Draw_keeps_hidden(self) ==
    IF Len(self.stock) > 0
    THEN [self EXCEPT !.stock = Front(self.stock),
                      !.discard = Append(self.discard, Last(self.stock))]
    ELSE self

\* a draw that turns the discard pile over into an empty stock
Draw_recycles(self) ==
    IF Len(self.stock) > 0
    THEN [self EXCEPT !.stock = Front(self.stock),
                      !.discard = Append(self.discard,
                                         [Last(self.stock) EXCEPT !.hidden = FALSE])]
    ELSE [self EXCEPT !.stock = [i \in 1 .. Len(self.discard) |->
                                    [self.discard[Len(self.discard) + 1 - i]
                                        EXCEPT !.hidden = TRUE]],
                      !.discard = <<>>]

\* stock.pop(), hidden = false, discard.push(card)
Draw(self) ==
    IF Len(self.stock) > 0
    THEN [self EXCEPT !.stock = Front(self.stock),
                      !.discard = Append(self.discard,
                                         [Last(self.stock) EXCEPT !.hidden = FALSE])]
    ELSE self

\* the clamp of a row past the column taken one too far
resolve_column_clamps_to_len(self, x, y) ==
    LET cx == x \div 5
        col == self.rows[cx]
        cy == y \div 2
    IN  IF Len(col) = 0 THEN Column(cx, 0)
        ELSE IF cy >= Len(col) THEN Column(cx, Len(col))
        ELSE IF At(col, cy).hidden THEN Column(cx, 0)
        ELSE Column(cx, cy)

\* the resolver without the clamp on a face-down card
resolve_column_no_clamp(self, x, y) ==
    LET cx == x \div 5
        col == self.rows[cx]
        cy == y \div 2
    IN  IF Len(col) = 0 THEN Column(cx, 0)
        ELSE IF cy >= Len(col) THEN Column(cx, Len(col) - 1)
        ELSE Column(cx, cy)

resolve_column(self, x, y) ==
    LET cx == x \div 5
        col == self.rows[cx]
        cy == y \div 2
    IN  IF Len(col) = 0 THEN Column(cx, 0)
        ELSE IF cy >= Len(col) THEN Column(cx, Len(col) - 1)
        ELSE IF At(col, cy).hidden THEN Column(cx, 0)
        ELSE Column(cx, cy)

\* the discard band resolved without the test for an empty discard pile
get_selected_pos_discard_unchecked(self, x, y) ==
    IF x \in 0 .. 39
    THEN [self |-> self, pos |-> resolve_column(self, x, y)]
    ELSE IF x \in 41 .. 45
    THEN IF y \in 0 .. 4
         THEN [self |-> Draw(self),
               pos |-> IF Len(self.stock) > 0 THEN Discard ELSE None]
         ELSE IF y \in 5 .. 9
         THEN [self |-> self, pos |-> Discard]
         ELSE IF y \in 10 .. 29
         THEN [self |-> self, pos |-> SuitPile(y \div 5 - 2)]
         ELSE [self |-> self, pos |-> None]
    ELSE [self |-> self, pos |-> None]

\* a resolver that only locates: the stock band without its draw
get_selected_pos_pure(self, x, y) ==
    IF x \in 0 .. 39
    THEN [self |-> self, pos |-> resolve_column(self, x, y)]
    ELSE IF x \in 41 .. 45
    THEN IF y \in 0 .. 4
         THEN [self |-> self,
               pos |-> IF Len(self.stock) > 0 THEN Discard ELSE None]
         ELSE IF y \in 5 .. 9
         THEN [self |-> self,
               pos |-> IF Len(self.discard) = 0 THEN None ELSE Discard]
         ELSE IF y \in 10 .. 29
         THEN [self |-> self, pos |-> SuitPile(y \div 5 - 2)]
         ELSE [self |-> self, pos |-> None]
    ELSE [self |-> self, pos |-> None]

get_selected_pos(self, x, y) ==
    IF x \in 0 .. 39
    THEN [self |-> self, pos |-> resolve_column(self, x, y)]
    ELSE IF x \in 41 .. 45
    THEN IF y \in 0 .. 4
         THEN [self |-> Draw(self),
               pos |-> IF Len(self.stock) > 0 THEN Discard ELSE None]
         ELSE IF y \in 5 .. 9
         THEN [self |-> self,
               pos |-> IF Len(self.discard) = 0 THEN None ELSE Discard]
         ELSE IF y \in 10 .. 29
         THEN [self |-> self, pos |-> SuitPile(y \div 5 - 2)]
         ELSE [self |-> self, pos |-> None]
    ELSE [self |-> self, pos |-> None]

----------------------------------------------------------------------------
(* App::handle_move *)

Panic(self) == [self EXCEPT !.panicked = TRUE]

\* dest = SuitPile(n), without the test that lets only one card go
move_to_suit_pile_any_index(self, src, n) ==
    IF src = Discard
    THEN IF Len(self.discard) = 0 \/ n \notin SuitPileIdx
         THEN Panic(self)
         ELSE IF ~validate_suit(self, n, Last(self.discard))
         THEN self
         ELSE [self EXCEPT !.suit_piles[n] = Append(@, Last(self.discard)),
                           !.discard = Front(self.discard)]
    ELSE IF src.kind = "Column"
    THEN IF src.x \notin ColumnIdx
         THEN Panic(self)
         ELSE IF Len(self.rows[src.x]) = 0
         THEN self
         ELSE IF src.y >= Len(self.rows[src.x]) \/ n \notin SuitPileIdx
         THEN Panic([self EXCEPT !.debug = DebugHere("Here1")])
         ELSE IF ~validate_suit(self, n, At(self.rows[src.x], src.y))
         THEN [self EXCEPT !.debug = DebugHere("Here1")]
         ELSE [self EXCEPT !.debug = DebugHere("Here2"),
                           !.suit_piles[n] = Append(@, Last(self.rows[src.x])),
                           !.rows[src.x] = RevealTop(Front(@))]
    ELSE self

\* dest = SuitPile(n)
move_to_suit_pile(self, src, n) ==
    IF src = Discard
    THEN IF Len(self.discard) = 0 \/ n \notin SuitPileIdx
         THEN Panic(self)
         ELSE IF ~validate_suit(self, n, Last(self.discard))
         THEN self
         ELSE [self EXCEPT !.suit_piles[n] = Append(@, Last(self.discard)),
                           !.discard = Front(self.discard)]
    ELSE IF src.kind = "Column"
    THEN IF src.x \notin ColumnIdx
         THEN Panic(self)
         ELSE IF Len(self.rows[src.x]) = 0 \/ Len(self.rows[src.x]) > src.y + 1
         THEN self
         ELSE IF src.y >= Len(self.rows[src.x]) \/ n \notin SuitPileIdx
         THEN Panic([self EXCEPT !.debug = DebugHere("Here1")])
         ELSE IF ~validate_suit(self, n, At(self.rows[src.x], src.y))
         THEN [self EXCEPT !.debug = DebugHere("Here1")]
         ELSE [self EXCEPT !.debug = DebugHere("Here2"),
                           !.suit_piles[n] = Append(@, Last(self.rows[src.x])),
                           !.rows[src.x] = RevealTop(Front(@))]
    ELSE self

\* dest = Column(x, _), src = Column(sx, sy): drain(sy..) of the source column,
\* extend of column x, then the reveal of the source column's new top
\* without the test sx == x, the run appended before the source is truncated
move_column_to_column_unguarded(self, src, x) ==
    IF src.x \notin ColumnIdx
    THEN Panic(self)
    ELSE IF Len(self.rows[src.x]) = 0
    THEN self
    ELSE IF src.y >= Len(self.rows[src.x]) \/ x \notin ColumnIdx
    THEN Panic(self)
    ELSE IF ~validate_col(self, x, At(self.rows[src.x], src.y))
    THEN self
    ELSE [self EXCEPT !.rows[x] = @ \o DrainTail(self.rows[src.x], src.y),
                      !.rows[src.x] = RevealTop(DrainRest(@, src.y))]

\* the transfer validated by the source column's top instead of the anchor
move_column_to_column_validates_top(self, src, x) ==
    IF src.x = x
    THEN self
    ELSE IF src.x \notin ColumnIdx
    THEN Panic(self)
    ELSE IF Len(self.rows[src.x]) = 0
    THEN self
    ELSE IF src.y >= Len(self.rows[src.x]) \/ x \notin ColumnIdx
    THEN Panic(self)
    ELSE IF ~validate_col(self, x, Last(self.rows[src.x]))
    THEN self
    ELSE [self EXCEPT !.rows[src.x] = DrainRest(@, src.y),
                      !.rows[x] = @ \o DrainTail(self.rows[src.x], src.y),
                      !.rows[src.x] = RevealTop(@)]

\* the transfer done as a single-card move: the source column's top pushed
move_column_to_column_top_only(self, src, x) ==
    IF src.x = x
    THEN self
    ELSE IF src.x \notin ColumnIdx
    THEN Panic(self)
    ELSE IF Len(self.rows[src.x]) = 0
    THEN self
    ELSE IF src.y >= Len(self.rows[src.x]) \/ x \notin ColumnIdx
    THEN Panic(self)
    ELSE IF ~validate_col(self, x, At(self.rows[src.x], src.y))
    THEN self
    ELSE [self EXCEPT !.rows[x] = Append(@, Last(self.rows[src.x])),
                      !.rows[src.x] = RevealTop(Front(@))]

move_column_to_column(self, src, x) ==
    IF src.x = x
    THEN self
    ELSE IF src.x \notin ColumnIdx
    THEN Panic(self)
    ELSE IF Len(self.rows[src.x]) = 0
    THEN self
    ELSE IF src.y >= Len(self.rows[src.x]) \/ x \notin ColumnIdx
    THEN Panic(self)
    ELSE IF ~validate_col(self, x, At(self.rows[src.x], src.y))
    THEN self
    ELSE [self EXCEPT !.rows[src.x] = DrainRest(@, src.y),
                      !.rows[x] = @ \o DrainTail(self.rows[src.x], src.y),
                      !.rows[src.x] = RevealTop(@)]

\* dest = Column(x, _)
move_to_column(self, src, x) ==
    IF src.kind = "None"
    THEN self
    ELSE IF src.kind = "Discard"
    THEN IF Len(self.discard) = 0 \/ x \notin ColumnIdx
         THEN Panic(self)
         ELSE IF ~validate_col(self, x, Last(self.discard))
         THEN self
         ELSE [self EXCEPT !.rows[x] = Append(@, Last(self.discard)),
                           !.discard = Front(self.discard)]
    ELSE IF src.kind = "SuitPile"
    THEN IF src.x \notin SuitPileIdx
         THEN Panic(self)
         ELSE IF Len(self.suit_piles[src.x]) = 0
         THEN self
         ELSE IF x \notin ColumnIdx
         THEN Panic(self)
         ELSE IF ~validate_col(self, x, Last(self.suit_piles[src.x]))
         THEN self
         ELSE [self EXCEPT !.rows[x] = Append(@, Last(self.suit_piles[src.x])),
                           !.suit_piles[src.x] = Front(@)]
    ELSE move_column_to_column(self, src, x)

handle_move(self, dest) ==
    LET src == self.selected_pos
        s0 == [self EXCEPT !.debug = DebugMove(src, dest)]
    IN  IF dest.kind \in {"None", "Discard"} THEN s0
        ELSE IF dest.kind = "SuitPile" THEN move_to_suit_pile(s0, src, dest.x)
        ELSE move_to_column(s0, src, dest.x)

----------------------------------------------------------------------------
(* App::handle_events, one action per kind of event *)

Self == [rows |-> rows, stock |-> stock, discard |-> discard,
         suit_piles |-> suit_piles, selected_pos |-> selected_pos,
         exit |-> exit, debug |-> debug, panicked |-> panicked]

\* the suits each foundation has received, extended by what a step pushed
HeldAfter(s) ==
    [n \in SuitPileIdx |->
        IF Len(s.suit_piles[n]) > Len(suit_piles[n])
        THEN held[n] \cup {Last(s.suit_piles[n]).suit}
        ELSE held[n]]

BecomesAt(s, kind, at) ==
    /\ rows' = s.rows
    /\ stock' = s.stock
    /\ discard' = s.discard
    /\ suit_piles' = s.suit_piles
    /\ selected_pos' = s.selected_pos
    /\ exit' = s.exit
    /\ debug' = s.debug
    /\ panicked' = s.panicked
    /\ held' = HeldAfter(s)
    /\ ev' = kind
    /\ nevents' = nevents + 1
    /\ clicked' = at

Becomes(s, kind) == BecomesAt(s, kind, NoClick)

\* run(): the loop reads an event while !exit
Running == ~exit /\ ~panicked

\* the mouse arm of handle_events for a left-button release at (x, y)
mouse_up(self, x, y) ==
    LET r == get_selected_pos(self, x, y)
        m == handle_move(r.self, r.pos)
    IN  IF m.panicked THEN m ELSE [m EXCEPT !.selected_pos = r.pos]

KeyEsc == Running /\ Becomes([Self EXCEPT !.exit = TRUE], "Esc")

\* the arm of 'c' left empty
KeyC_keeps_selection == Running /\ Becomes(Self, "c")

KeyC == Running /\ Becomes([Self EXCEPT !.selected_pos = None], "c")

KeyD == Running /\ Becomes(Draw(Self), "d")

KeyOther == Running /\ Becomes(Self, "key")

MouseOther == Running /\ Becomes(Self, "mouse")

MouseLeftUp == Running /\ \E c \in Clicks : Becomes(mouse_up(Self, c[1], c[2]), "click")

MouseLeftUpDeep == Running /\ \E c \in DeepClicks : Becomes(mouse_up(Self, c[1], c[2]), "click")

MouseLeftUpTraced ==
    Running /\ \E c \in TraceClicks : BecomesAt(mouse_up(Self, c[1], c[2]), "click", c)

MouseLeftUpStock ==
    Running /\ \E c \in StockClicks : BecomesAt(mouse_up(Self, c[1], c[2]), "click", c)

InitWith(orders) ==
    \E order \in orders :
        LET a == init(order)
        IN  /\ rows = a.rows
            /\ stock = a.stock
            /\ discard = a.discard
            /\ suit_piles = a.suit_piles
            /\ selected_pos = a.selected_pos
            /\ exit = a.exit
            /\ debug = a.debug
            /\ panicked = a.panicked
            /\ ev = "none"
            /\ held = [n \in SuitPileIdx |-> {}]
            /\ nevents = 0
            /\ clicked = NoClick

Init == InitWith(Shuffles)

InitDeal == InitWith(DealShuffles)

Next ==
    \/ nevents < MaxEvents /\ KeyEsc
    \/ nevents < MaxEvents /\ KeyC
    \/ nevents < MaxEvents /\ KeyD
    \/ nevents < MaxEvents /\ KeyOther
    \/ nevents < MaxEvents /\ MouseOther
    \/ nevents < MaxEvents /\ MouseLeftUp

NextDeep ==
    \/ nevents < MaxDeepEvents /\ KeyEsc
    \/ nevents < MaxDeepEvents /\ KeyC
    \/ nevents < MaxDeepEvents /\ KeyD
    \/ nevents < MaxDeepEvents /\ KeyOther
    \/ nevents < MaxDeepEvents /\ MouseOther
    \/ nevents < MaxDeepEvents /\ MouseLeftUpDeep

NextDeal ==
    \/ nevents < MaxDealEvents /\ KeyEsc
    \/ nevents < MaxDealEvents /\ KeyC
    \/ nevents < MaxDealEvents /\ KeyD
    \/ nevents < MaxDealEvents /\ KeyOther
    \/ nevents < MaxDealEvents /\ MouseOther
    \/ nevents < MaxDealEvents /\ MouseLeftUp

NextTrace ==
    \/ nevents < MaxTraceEvents /\ KeyEsc
    \/ nevents < MaxTraceEvents /\ KeyC
    \/ nevents < MaxTraceEvents /\ KeyD
    \/ nevents < MaxTraceEvents /\ KeyOther
    \/ nevents < MaxTraceEvents /\ MouseOther
    \/ nevents < MaxTraceEvents /\ MouseLeftUpTraced

NextStock ==
    \/ nevents < MaxStockEvents /\ KeyEsc
    \/ nevents < MaxStockEvents /\ KeyC
    \/ nevents < MaxStockEvents /\ KeyD
    \/ nevents < MaxStockEvents /\ KeyOther
    \/ nevents < MaxStockEvents /\ MouseOther
    \/ nevents < MaxStockEvents /\ MouseLeftUpStock

\* play from the deal Shuffle1, all clicks
Spec == Init /\ [][Next]_vars

\* longer play from the same deal, clicks in DeepClicks
SpecDeep == Init /\ [][NextDeep]_vars

\* the first event after each deal of DealShuffles
SpecDeal == InitDeal /\ [][NextDeal]_vars

\* play from the deal Shuffle1 with the place of every click recorded
SpecTrace == Init /\ [][NextTrace]_vars

\* the stock drawn to its end and beyond, every click recorded
SpecStock == Init /\ [][NextStock]_vars

----------------------------------------------------------------------------
(* Properties *)

ColumnCards == rows[0] \o rows[1] \o rows[2] \o rows[3] \o rows[4] \o rows[5] \o rows[6] \o rows[7]
FoundationCards == suit_piles[0] \o suit_piles[1] \o suit_piles[2] \o suit_piles[3]
AllCards == stock \o discard \o ColumnCards \o FoundationCards

\* column x was dealt x+1 cards: if it holds more, it has received some
Grown(x) == Len(rows[x]) > x + 1

\* C1: card conservation: in every reachable state the cards of stock,
\* discard, the 8 columns and the 4 foundations are 52 cards that carry each
\* (suit, rank) pair of the deck, so each pair exactly once.
C1_CardConservation ==
    /\ Len(AllCards) = DeckSize
    /\ {CardId(AllCards[i]) : i \in 1 .. Len(AllCards)}
           = {CardId(DECK[i]) : i \in 0 .. (DeckSize - 1)}

\* cards have been drawn and a run of two or more cards has changed column
C1_Witness ==
    /\ discard # <<>>
    /\ \E x \in ColumnIdx : Len(rows[x]) > x + 2

\* C2: no handler panics: no unwrap of an empty discard pile, no column or
\* foundation indexed out of range.
C2_NeverPanics == ~panicked

\* the pending source Discard was unwrapped twice by the move that emptied
\* the discard pile
C2_Witness ==
    /\ ~panicked
    /\ debug.text = "->" /\ debug.src = Discard /\ debug.dest.kind = "SuitPile"
    /\ discard = <<>>
    /\ suit_piles[debug.dest.x] # <<>>

\* the claim's column-placement rule for card on the column col
ColumnRule(col, card) ==
    \/ Len(col) = 0 /\ card.number = 12
    \/ /\ Len(col) > 0
       /\ color(Last(col)) # color(card)
       /\ Last(col).number = card.number + 1

\* the cards a valid pending source src offers to column x (the discard top,
\* a foundation top, the run of another column from index sy), <<>> if the
\* source is not valid
SourceCards(src, x) ==
    IF src = Discard /\ discard # <<>>
    THEN <<Last(discard)>>
    ELSE IF src.kind = "SuitPile" /\ src.x \in SuitPileIdx /\ suit_piles[src.x] # <<>>
    THEN <<Last(suit_piles[src.x])>>
    ELSE IF src.kind = "Column" /\ src.x \in ColumnIdx /\ src.x # x
            /\ src.y < Len(rows[src.x])
    THEN SubSeq(rows[src.x], src.y + 1, Len(rows[src.x]))
    ELSE <<>>

\* the claim's foundation rule for card on the foundation pile
FoundationRule(pile, card) == Len(pile) = 0 \/ Last(pile).suit = card.suit

\* C3: a step that adds cards to column x adds the cards of a valid pending
\* source whose first card satisfies the column-placement rule against column
\* x as it was; and a click on column x with a valid pending source whose
\* first card satisfies the rule adds those cards.
C3_ColumnPlacementRule ==
    [][\A x \in ColumnIdx :
        LET offered == SourceCards(selected_pos, x)
        IN  /\ Len(rows'[x]) > Len(rows[x]) =>
                  /\ offered # <<>>
                  /\ ColumnRule(rows[x], offered[1])
                  /\ rows'[x] = rows[x] \o offered
            /\ ( /\ ev' = "click"
                 /\ selected_pos'.kind = "Column" /\ selected_pos'.x = x
                 /\ offered # <<>>
                 /\ ColumnRule(rows[x], offered[1]) ) =>
                  rows'[x] = rows[x] \o offered
      ]_vars

\* a King has just been moved from a column onto an emptied column, and
\* another column has received a card on its dealt top
C3_Witness ==
    /\ ev = "click" /\ debug.text = "->"
    /\ debug.src.kind = "Column" /\ debug.dest.kind = "Column"
    /\ Len(rows[debug.dest.x]) = 1
    /\ rows[debug.dest.x][1].number = King
    /\ \E x \in ColumnIdx : Grown(x) /\ ~At(rows[x], x).hidden

\* C4 (as claimed): a click that drains cards of column sx onto another
\* column drains face-up cards only, so the face-down cards of column sx stay.
C4_OnlyFaceUpRunsMove ==
    [][\A sx \in ColumnIdx :
        ( /\ ev' = "click"
          /\ selected_pos.kind = "Column" /\ selected_pos.x = sx
          /\ selected_pos'.kind = "Column" /\ selected_pos'.x # sx
          /\ Len(rows'[sx]) < Len(rows[sx]) ) =>
            \A i \in (Len(rows'[sx]) + 1) .. Len(rows[sx]) : ~rows[sx][i].hidden
      ]_vars

\* the anchor card of the pending source src in the state s, <<>> if it has none
AnchorCard(s, src) ==
    IF src = Discard /\ s.discard # <<>>
    THEN <<Last(s.discard)>>
    ELSE IF src.kind = "SuitPile" /\ s.suit_piles[src.x] # <<>>
    THEN <<Last(s.suit_piles[src.x])>>
    ELSE IF src.kind = "Column" /\ src.y < Len(s.rows[src.x])
    THEN <<At(s.rows[src.x], src.y)>>
    ELSE <<>>

\* the pairs (src, dest) that fail the transition table in the state s
Rejected(s, src, dest) ==
    \/ dest.kind \in {"None", "Discard"}
    \/ src.kind = "None"
    \/ src.kind = "SuitPile" /\ dest.kind = "SuitPile"
    \/ src.kind = "Column" /\ dest.kind = "Column" /\ src.x = dest.x
    \/ src.kind = "Column" /\ Len(s.rows[src.x]) = 0
    \/ src.kind = "SuitPile" /\ Len(s.suit_piles[src.x]) = 0
    \/ src.kind = "Column" /\ dest.kind = "SuitPile" /\ src.y # Len(s.rows[src.x]) - 1
    \/ /\ dest.kind = "SuitPile"
       /\ AnchorCard(s, src) # <<>>
       /\ ~FoundationRule(s.suit_piles[dest.x], AnchorCard(s, src)[1])
    \/ /\ dest.kind = "Column"
       /\ AnchorCard(s, src) # <<>>
       /\ ~ColumnRule(s.rows[dest.x], AnchorCard(s, src)[1])

\* C5: a click whose pending source and resolved position fail the
\* transition table leaves columns, foundations, stock and discard (face-down
\* flags included) as the resolver left them: unchanged, but for the card a
\* click in the stock band has drawn before handle_move ran.
C5_RejectedMovesAreNoOps ==
    [][(ev' = "click" /\ Rejected(Self, selected_pos, selected_pos')) =>
          /\ ~panicked'
          /\ rows' = rows
          /\ suit_piles' = suit_piles
          /\ IF selected_pos' = Discard
             THEN \/ stock' = stock /\ discard' = discard
                  \/ stock' = Draw(Self).stock /\ discard' = Draw(Self).discard
             ELSE stock' = stock /\ discard' = discard
      ]_vars

\* a red 5 drawn to the discard pile has just been refused by a column whose
\* top is a black 5
C5_Witness ==
    /\ ev = "click" /\ debug.text = "->"
    /\ debug.src = Discard /\ debug.dest.kind = "Column"
    /\ discard # <<>> /\ CardId(Last(discard)) = <<1, 4>>
    /\ CardId(Last(rows[debug.dest.x])) = <<0, 4>>
    /\ ~Grown(debug.dest.x)

\* C6: the top card of every non-empty column is face-up, so a column that
\* has lost its top shows its new top.
C6_RevealInvariant ==
    \A x \in ColumnIdx : rows[x] # <<>> => ~Last(rows[x]).hidden

\* a column has lost at least two of the cards it was dealt: its top is a card
\* that was dealt face-down
C6_Witness ==
    \E x \in ColumnIdx :
        /\ rows[x] # <<>>
        /\ Len(rows[x]) < x
        /\ ~Last(rows[x]).hidden

\* C7 (as claimed): all cards a foundation has ever received have one suit.
C7_OnceSuitAlwaysSuit ==
    \A n \in SuitPileIdx : Cardinality(held[n]) <= 1

\* C7 (amended): a step that pushes a card onto a non-empty foundation pushes
\* a card of the suit of the foundation's top.
C7_PushMatchesTopSuit ==
    [][\A n \in SuitPileIdx :
        (Len(suit_piles'[n]) > Len(suit_piles[n]) /\ suit_piles[n] # <<>>) =>
            Last(suit_piles'[n]).suit = Last(suit_piles[n]).suit
      ]_vars

\* a foundation holds two cards: the second was pushed onto the first
C7_Witness ==
    \E n \in SuitPileIdx : Len(suit_piles[n]) >= 2

\* C8: right after init, column i holds i+1 cards of which only the last is
\* face-up, the discard pile and the foundations are empty and nothing is
\* selected.
C8_DealShape ==
    nevents = 0 =>
        /\ \A i \in ColumnIdx :
              /\ Len(rows[i]) = i + 1
              /\ \A j \in 1 .. Len(rows[i]) : rows[i][j].hidden = (j # i + 1)
        /\ discard = <<>>
        /\ \A n \in SuitPileIdx : suit_piles[n] = <<>>
        /\ selected_pos = None

\* a deal other than the unrotated Shuffle1
C8_Witness ==
    /\ nevents = 0
    /\ rows[7] # <<>>
    /\ CardId(rows[0][1]) # CardId(DECK[Shuffle1[1]])

\* C9 (as claimed): right after init the stock holds 24 face-down cards.
C9_StockHolds24 ==
    nevents = 0 =>
        /\ Len(stock) = 24
        /\ \A j \in 1 .. Len(stock) : stock[j].hidden

\* C9 (amended): right after init the stock holds 16 face-down cards.
C9_StockHolds16 ==
    nevents = 0 =>
        /\ Len(stock) = 16
        /\ \A j \in 1 .. Len(stock) : stock[j].hidden

\* the 52 cards have just been dealt: 36 of them lie in the columns
C9_Witness ==
    /\ nevents = 0
    /\ Len(ColumnCards) = 36
    /\ Len(AllCards) = DeckSize

\* C10: a click that resolves to a card of column x while the pending source
\* is a card of the same column x changes no pile.
C10_SelfMoveNoOp ==
    [][( /\ ev' = "click"
         /\ selected_pos.kind = "Column" /\ selected_pos'.kind = "Column"
         /\ selected_pos'.x = selected_pos.x ) =>
            ~panicked' /\ piles' = piles
      ]_vars

\* a click on the top of column x has just followed a click that stored
\* Column(x, 0), and the card at index 0 satisfies the column-placement rule
\* against the column's own top
C10_Witness ==
    /\ ev = "click" /\ debug.text = "->"
    /\ debug.src.kind = "Column" /\ debug.dest.kind = "Column"
    /\ debug.src.x = debug.dest.x
    /\ debug.src.y = 0 /\ debug.dest.y > 0
    /\ selected_pos = debug.dest
    /\ Len(rows[debug.src.x]) > 1
    /\ ColumnRule(rows[debug.src.x], rows[debug.src.x][1])

\* the cells of the stock band: x in 41..46 and y in 0..5, upper ends excluded
StockBand == (41 .. 45) \X (0 .. 4)

PilesOf(s) == <<s.rows, s.stock, s.discard, s.suit_piles>>

\* the draw as the claim words it, as a relation between a state and the next
DrawnOrNothing ==
    /\ rows' = rows
    /\ suit_piles' = suit_piles
    /\ IF stock # <<>>
       THEN /\ stock' = SubSeq(stock, 1, Len(stock) - 1)
            /\ Len(discard') = Len(discard) + 1
            /\ SubSeq(discard', 1, Len(discard)) = discard
            /\ CardId(discard'[Len(discard')]) = CardId(stock[Len(stock)])
            /\ ~discard'[Len(discard')].hidden
       ELSE stock' = stock /\ discard' = discard

\* C11: a step that handles key 'd' draws (stock non-empty: its top card is
\* removed, set face-up and becomes the discard top; stock empty: nothing
\* changes) and leaves the piles as a left click on any cell of the stock band
\* would have left them; a step that handles a left click in the stock band
\* draws and leaves the piles as key 'd' would have left them.
C11_KeyDDrawsLikeStockClick ==
    [][ /\ ev' = "d" =>
              /\ DrawnOrNothing
              /\ \A c \in StockBand : PilesOf(mouse_up(Self, c[1], c[2])) = piles'
        /\ (ev' = "click" /\ clicked' \in StockBand) =>
              /\ DrawnOrNothing
              /\ PilesOf(Draw(Self)) = piles'
      ]_vars

\* key 'd' has just been handled on the empty stock, after all 16 cards were
\* drawn and a click had resolved to the discard pile
C11_Witness ==
    /\ ev = "d"
    /\ stock = <<>> /\ Len(discard) = 16
    /\ nevents > 16
    /\ debug.dest = Discard

\* C12: a step that handles key 'c' sets the pending source to None and
\* leaves the piles (face-down flags included) and the exit flag unchanged;
\* the click handled right after it moves no card: it leaves the piles
\* unchanged, or, when it resolves to Discard or None, as a draw leaves them.
C12_ClearSelection ==
    [][ /\ ev' = "c" =>
              /\ selected_pos' = None
              /\ piles' = piles
              /\ exit' = exit
              /\ ~panicked'
        /\ (ev = "c" /\ ev' = "click") =>
              /\ ~panicked'
              /\ \/ piles' = piles
                 \/ /\ selected_pos' \in {Discard, None}
                    /\ piles' = PilesOf(Draw(Self))
      ]_vars

\* key 'c' has just cleared a pending card of a column that another column
\* would have accepted
C12_Witness ==
    /\ ev = "c" /\ selected_pos = None
    /\ debug.text = "->" /\ debug.dest.kind = "Column"
    /\ debug.dest.y < Len(rows[debug.dest.x])
    /\ \E x \in ColumnIdx \ {debug.dest.x} :
          ColumnRule(rows[x], At(rows[debug.dest.x], debug.dest.y))

\* C13 (as claimed): each non-empty foundation holds an ascending same-suit
\* run starting at Ace: its bottom card is an Ace, its cards share one suit
\* and each card's rank is one higher than that of the card beneath it.
C13_AscendingFromAce ==
    \A n \in SuitPileIdx :
        suit_piles[n] # <<>> =>
            /\ suit_piles[n][1].number = 0
            /\ \A i \in 2 .. Len(suit_piles[n]) :
                  /\ suit_piles[n][i].suit = suit_piles[n][i - 1].suit
                  /\ suit_piles[n][i].number = suit_piles[n][i - 1].number + 1

\* C13 (amended): every card of a non-empty foundation has the suit of the
\* foundation's bottom card.
C13_SuitOfBottomCard ==
    \A n \in SuitPileIdx :
        \A i \in 1 .. Len(suit_piles[n]) :
            suit_piles[n][i].suit = suit_piles[n][1].suit

\* a foundation seeded with a card that is no Ace holds a second card, of a
\* lower rank
C13_Witness ==
    \E n \in SuitPileIdx :
        /\ Len(suit_piles[n]) >= 2
        /\ suit_piles[n][1].number # 0
        /\ suit_piles[n][2].number < suit_piles[n][1].number

\* the (suit, rank) pairs of the cards of v, in order
Ids(v) == [i \in 1 .. Len(v) |-> CardId(v[i])]

\* C14: a click that resolves to SuitPile(n) while the pending source is
\* Column(x, y) moves a card iff column x is non-empty, y is its last index
\* and foundation n is empty or its top has the suit of the card at y; the
\* move puts the top card of column x on top of foundation n and changes no
\* other pile; without a move no pile changes.
C14_OneTopCardToFoundation ==
    [][\A x \in ColumnIdx, n \in SuitPileIdx :
        ( /\ ev' = "click"
          /\ selected_pos.kind = "Column" /\ selected_pos.x = x
          /\ selected_pos' = SuitPile(n) ) =>
            /\ ~panicked'
            /\ stock' = stock
            /\ discard' = discard
            /\ IF /\ Len(rows[x]) > 0
                  /\ selected_pos.y = Len(rows[x]) - 1
                  /\ FoundationRule(suit_piles[n], At(rows[x], selected_pos.y))
               THEN /\ suit_piles' = [suit_piles EXCEPT ![n] = Append(@, Last(rows[x]))]
                    /\ Ids(rows'[x]) = Ids(Front(rows[x]))
                    /\ \A j \in ColumnIdx \ {x} : rows'[j] = rows[j]
               ELSE piles' = piles
      ]_vars

\* the top card of a column of two or more cards has just gone to a
\* foundation, and the column shows its new top
C14_Witness ==
    /\ ev = "click" /\ debug.text = "Here2"
    /\ selected_pos.kind = "SuitPile"
    /\ suit_piles[selected_pos.x] # <<>>
    /\ \E x \in ColumnIdx :
          /\ Len(rows[x]) = x /\ x >= 1
          /\ ~Last(rows[x]).hidden
          /\ \A j \in ColumnIdx \ {x} : Len(rows[j]) = j + 1

\* the click recorded by a step lies in the lane of column cx, on a row inside
\* the column as it was, and that row's card was face-down
ClickedFaceDown(cx) ==
    /\ ev' = "click"
    /\ clicked'[1] \in 0 .. 39
    /\ clicked'[1] \div 5 = cx
    /\ rows[cx] # <<>>
    /\ clicked'[2] \div 2 < Len(rows[cx])
    /\ At(rows[cx], clicked'[2] \div 2).hidden

\* C15 (as claimed): a click in a column lane on a row holding a face-down
\* card resolves to Column(x, 0) and not to Column(x, r), r the clicked row.
C15_ClampNeverTrueIndex ==
    [][\A cx \in ColumnIdx :
        ClickedFaceDown(cx) =>
            /\ selected_pos' = Column(cx, 0)
            /\ selected_pos' # Column(cx, clicked'[2] \div 2)
      ]_vars

\* C15 (amended): such a click resolves to Column(x, 0), which is not
\* Column(x, r) when the clicked row r is above row 0.
C15_ClampToRowZero ==
    [][\A cx \in ColumnIdx :
        ClickedFaceDown(cx) =>
            /\ selected_pos' = Column(cx, 0)
            /\ clicked'[2] \div 2 > 0 => selected_pos'.y # clicked'[2] \div 2
      ]_vars

\* a click on the odd terminal row of a face-down card above row 0 has just
\* resolved to row 0 of its column
C15_Witness ==
    /\ ev = "click"
    /\ clicked[1] \in 0 .. 39
    /\ clicked[2] \div 2 >= 1 /\ clicked[2] % 2 = 1
    /\ clicked[2] \div 2 < Len(rows[clicked[1] \div 5])
    /\ At(rows[clicked[1] \div 5], clicked[2] \div 2).hidden
    /\ selected_pos = Column(clicked[1] \div 5, 0)
    /\ debug.dest = selected_pos

\* C16: a click that resolves to column x while the pending source is
\* Column(sx, sy), sx # x, column sx is non-empty and the card at sy satisfies
\* the column-placement rule against column x, leaves column x as it was
\* followed by the cards of column sx from index sy to the top in their
\* order, column sx as its first sy cards with the new top (if any) face-up,
\* and every other pile unchanged.
C16_MultiCardTransfer ==
    [][( /\ ev' = "click"
         /\ selected_pos.kind = "Column" /\ selected_pos'.kind = "Column"
         /\ selected_pos.x # selected_pos'.x
         /\ selected_pos.y < Len(rows[selected_pos.x])
         /\ ColumnRule(rows[selected_pos'.x], At(rows[selected_pos.x], selected_pos.y)) ) =>
            LET sx == selected_pos.x
                sy == selected_pos.y
                x == selected_pos'.x
            IN  /\ rows'[x] = rows[x] \o SubSeq(rows[sx], sy + 1, Len(rows[sx]))
                /\ Len(rows'[sx]) = sy
                /\ \A i \in 1 .. sy :
                      /\ CardId(rows'[sx][i]) = CardId(rows[sx][i])
                      /\ rows'[sx][i].hidden = (rows[sx][i].hidden /\ i # sy)
                /\ \A j \in ColumnIdx \ {sx, x} : rows'[j] = rows[j]
                /\ stock' = stock
                /\ discard' = discard
                /\ suit_piles' = suit_piles
      ]_vars

\* a run of two face-up cards picked above row 0 has just been moved onto
\* the dealt top of another column
C16_Witness ==
    /\ ev = "click" /\ debug.text = "->"
    /\ debug.src.kind = "Column" /\ debug.dest.kind = "Column"
    /\ debug.src.x # debug.dest.x
    /\ debug.src.y > 0
    /\ Len(rows[debug.src.x]) = debug.src.y
    /\ Len(rows[debug.dest.x]) = debug.dest.x + 3
    /\ \A i \in (debug.dest.x + 1) .. (debug.dest.x + 3) : ~rows[debug.dest.x][i].hidden

\* C17: in every state the cards of the stock are face-down and the cards of
\* the discard pile face-up; no step makes the stock longer, so an empty
\* stock stays empty; and a click in the stock band on the empty stock
\* resolves to None and changes no pile.
C17_StockOneWay ==
    /\ [](/\ \A i \in 1 .. Len(stock) : stock[i].hidden
          /\ \A i \in 1 .. Len(discard) : ~discard[i].hidden)
    /\ [][ /\ Len(stock') <= Len(stock)
           /\ stock = <<>> => stock' = <<>>
           /\ (stock = <<>> /\ ev' = "click" /\ clicked' \in StockBand) =>
                 /\ selected_pos' = None
                 /\ piles' = piles
         ]_vars

\* a click in the stock band has just been handled on the stock emptied by
\* 16 draws
C17_Witness ==
    /\ ev = "click" /\ clicked \in StockBand
    /\ stock = <<>>
    /\ Len(discard) >= 15
    /\ nevents > 16
    /\ selected_pos = None

\* C18: between events the pending selection is valid: Discard only with a
\* non-empty discard pile, SuitPile(n) only with n < 4, Column(x, y) only
\* with x < 8 and either column x empty and y = 0, or y < length of column x.
C18_PendingSelectionValid ==
    /\ selected_pos.kind = "Discard" => discard # <<>>
    /\ selected_pos.kind = "SuitPile" => selected_pos.x \in 0 .. 3
    /\ selected_pos.kind = "Column" =>
          /\ selected_pos.x \in 0 .. 7
          /\ \/ rows[selected_pos.x] = <<>> /\ selected_pos.y = 0
             \/ selected_pos.y \in 0 .. (Len(rows[selected_pos.x]) - 1)

\* the click that stored Column(x, y) moved the whole of another column onto
\* column x, and a key 'd' has been handled since
C18_Witness ==
    /\ ev = "d"
    /\ selected_pos.kind = "Column" /\ debug.dest = selected_pos
    /\ debug.src.kind = "Column" /\ debug.src.x # selected_pos.x
    /\ rows[debug.src.x] = <<>>
    /\ Grown(selected_pos.x)

\* C19: all cards held in one foundation have the same suit, and every card
\* in a foundation is face-up.
C19_FoundationsHomogeneousFaceUp ==
    \A n \in SuitPileIdx :
        /\ \A i, j \in 1 .. Len(suit_piles[n]) :
              suit_piles[n][i].suit = suit_piles[n][j].suit
        /\ \A i \in 1 .. Len(suit_piles[n]) : ~suit_piles[n][i].hidden

\* a foundation holds the only card drawn and, on top of it, a card that has
\* just come from a column
C19_Witness ==
    /\ ev = "click" /\ debug.text = "Here2"
    /\ selected_pos.kind = "SuitPile"
    /\ Len(suit_piles[selected_pos.x]) = 2
    /\ discard = <<>> /\ Len(stock) = 15

\* C20: in every column, of two vertically adjacent cards that are both
\* face-up the lower has the opposite colour and a rank one higher than the
\* card lying on it.
C20_FaceUpRunsWellFormed ==
    \A x \in ColumnIdx :
        \A i \in 1 .. (Len(rows[x]) - 1) :
            (~rows[x][i].hidden /\ ~rows[x][i + 1].hidden) =>
                /\ color(rows[x][i]) # color(rows[x][i + 1])
                /\ rows[x][i].number = rows[x][i + 1].number + 1

\* the card dealt face-down at the bottom of column 1 was moved while
\* face-down and now lies face-up on a face-up card
C20_Witness ==
    \E x \in ColumnIdx :
        /\ Len(rows[x]) >= 2
        /\ CardId(Last(rows[x])) = CardId(DECK[Shuffle1[2]])
        /\ ~Last(rows[x]).hidden
        /\ ~rows[x][Len(rows[x]) - 1].hidden

====
